---- MODULE Spec2Model ----
(***************************************************************************)
(* Derived-metrics and achievement engine of the bookstack reading         *)
(* tracker: AchievementService, AnalyticsService, BookService and the App  *)
(* handlers that drive them.                                               *)
(*                                                                         *)
(* Dates are modelled at calendar-day granularity: a day is an integer,    *)
(* and "now" is the current day.  Where the code compares instants, a      *)
(* date carries a time of day: 0 for midnight, 1 for any later time.       *)
(* Numbers that the code keeps as floating                                 *)
(* point quotients (hours, pages per hour, progress) are exact fractions   *)
(* [n, d] in lowest terms.  A book's quotes array is modelled by its       *)
(* length, the only thing the engine reads from it.                        *)
(***************************************************************************)
EXTENDS Integers, Sequences, FiniteSets, TLC

VARIABLES
    userAchievements,   \* AchievementService.userAchievements
    now,                \* the current calendar day (new Date())
    argBooks,           \* books argument of the latest checkAchievements call
    argSessions,        \* sessions argument of the latest checkAchievements call
    argNow,             \* the day on which the latest checkAchievements call ran
    newAchievements,    \* value returned by the latest checkAchievements call
    calls,              \* number of checkAchievements calls made so far
    repeated,           \* the latest call repeated the inputs and date of the one before
    timesReturned,      \* per catalog id, how often it appeared in a returned list
    readingSessions,    \* BookService.readingSessions
    analytics,          \* value returned by the latest getAnalytics call
    streakMetric,       \* latest value of AchievementService.calculateReadingStreak
    books,              \* BookService.books
    appBooks,           \* the books state of AppContent (useState)
    goals,              \* GoalService.goals
    mounted,            \* AppContent has been mounted
    nextId,             \* number of the next id that generateId hands out
    goalOp,             \* the latest GoalService call, its outcome, the call before it
    goalStatus,         \* the latest getGoalStatus call and its result
    showAddForm,        \* the showAddForm state of ReadingGoals (useState)
    editingGoal         \* id of the editingGoal state of ReadingGoals, 0 for null

engineVars == <<userAchievements, argBooks, argSessions, argNow, newAchievements,
                calls, repeated, timesReturned>>

metricVars == <<readingSessions, analytics, streakMetric>>

appVars == <<books, appBooks, goals, mounted>>

goalVars == <<nextId, goalOp, goalStatus, showAddForm, editingGoal>>

vars == <<now, engineVars, metricVars, appVars, goalVars>>

(***************************************************************************)
(* Bounds                                                                  *)
(***************************************************************************)
MaxNow == 2

MaxCalls == 3

MaxDay == 6

MaxSessions == 4

MaxGoals == 1

\* GoalService calls made in one exploration of the goal store.
MaxGoalOps == 4

\* Sessions held by the book store when the analytics are asked for.
MaxLogged == 2

\* Largest target and currentProgress of a goal whose status is asked for.
MaxTarget == 5

\* Handlers of AppContent run in one exploration of the App.
MaxHandlers == 4

\* Days in a calendar month of the modelled calendar.
MonthLength == 3

(***************************************************************************)
(* Fractions                                                               *)
(***************************************************************************)
RECURSIVE GCD(_, _)
GCD(a, b) == IF b = 0 THEN a ELSE GCD(b, a % b)

Frac(n, d) == IF n = 0 THEN [n |-> 0, d |-> 1]
              ELSE LET g == GCD(n, d) IN [n |-> n \div g, d |-> d \div g]

FracOfInt(k) == [n |-> k, d |-> 1]

FracDiv(x, k) == Frac(x.n, x.d * k)

FracMul(x, k) == Frac(x.n * k, x.d)

FracLeq(x, y) == x.n * y.d <= y.n * x.d

FracMin(x, y) == IF FracLeq(x, y) THEN x ELSE y

Min(a, b) == IF a <= b THEN a ELSE b

(***************************************************************************)
(* The achievement catalog                                                 *)
(***************************************************************************)
achievements == <<
    [id |-> "books-1", type |-> "books_read", requirement |-> 1],
    [id |-> "books-5", type |-> "books_read", requirement |-> 5],
    [id |-> "books-10", type |-> "books_read", requirement |-> 10],
    [id |-> "books-25", type |-> "books_read", requirement |-> 25],
    [id |-> "books-50", type |-> "books_read", requirement |-> 50],
    [id |-> "books-100", type |-> "books_read", requirement |-> 100],
    [id |-> "books-250", type |-> "books_read", requirement |-> 250],
    [id |-> "pages-1000", type |-> "pages_read", requirement |-> 1000],
    [id |-> "pages-5000", type |-> "pages_read", requirement |-> 5000],
    [id |-> "pages-10000", type |-> "pages_read", requirement |-> 10000],
    [id |-> "pages-25000", type |-> "pages_read", requirement |-> 25000],
    [id |-> "pages-50000", type |-> "pages_read", requirement |-> 50000],
    [id |-> "streak-3", type |-> "reading_streak", requirement |-> 3],
    [id |-> "streak-7", type |-> "reading_streak", requirement |-> 7],
    [id |-> "streak-14", type |-> "reading_streak", requirement |-> 14],
    [id |-> "streak-30", type |-> "reading_streak", requirement |-> 30],
    [id |-> "streak-100", type |-> "reading_streak", requirement |-> 100],
    [id |-> "genres-3", type |-> "genre_diversity", requirement |-> 3],
    [id |-> "genres-5", type |-> "genre_diversity", requirement |-> 5],
    [id |-> "genres-10", type |-> "genre_diversity", requirement |-> 10],
    [id |-> "genres-15", type |-> "genre_diversity", requirement |-> 15],
    [id |-> "speed-50", type |-> "speed_reader", requirement |-> 50],
    [id |-> "speed-75", type |-> "speed_reader", requirement |-> 75],
    [id |-> "speed-100", type |-> "speed_reader", requirement |-> 100],
    [id |-> "quotes-10", type |-> "quote_collector", requirement |-> 10],
    [id |-> "quotes-25", type |-> "quote_collector", requirement |-> 25],
    [id |-> "quotes-50", type |-> "quote_collector", requirement |-> 50],
    [id |-> "quotes-100", type |-> "quote_collector", requirement |-> 100],
    [id |-> "time-10", type |-> "reading_time", requirement |-> 10],
    [id |-> "time-50", type |-> "reading_time", requirement |-> 50],
    [id |-> "time-100", type |-> "reading_time", requirement |-> 100],
    [id |-> "time-500", type |-> "reading_time", requirement |-> 500],
    [id |-> "goals-1", type |-> "goal_achiever", requirement |-> 1],
    [id |-> "goals-5", type |-> "goal_achiever", requirement |-> 5],
    [id |-> "goals-10", type |-> "goal_achiever", requirement |-> 10],
    [id |-> "consistent-30", type |-> "consistent_reader", requirement |-> 30],
    [id |-> "consistent-90", type |-> "consistent_reader", requirement |-> 90],
    [id |-> "consistent-365", type |-> "consistent_reader", requirement |-> 365]
>>

Epoch == 0

(***************************************************************************)
(* Metric helpers of AchievementService                                    *)
(***************************************************************************)
RECURSIVE SumPages(_)
SumPages(ss) == IF ss = <<>> THEN 0 ELSE Head(ss).pagesRead + SumPages(Tail(ss))

RECURSIVE SumDuration(_)
SumDuration(ss) == IF ss = <<>> THEN 0 ELSE Head(ss).duration + SumDuration(Tail(ss))

RECURSIVE SumQuotes(_)
SumQuotes(bs) == IF bs = <<>> THEN 0 ELSE Head(bs).quotes + SumQuotes(Tail(bs))

completedOf(bs) == SelectSeq(bs, LAMBDA b : b.status = "completed")

calculateTotalPagesRead(bs, ss) == SumPages(ss)

\* Total reading time left in minutes.
calculateTotalReadingTime_Minutes(ss) == FracOfInt(SumDuration(ss))

calculateTotalReadingTime(ss) == Frac(SumDuration(ss), 60)

Trim(g) == IF g = " " THEN "" ELSE g

getUniqueGenres(bs) ==
    { bs[i].genre : i \in { j \in 1..Len(bs) : bs[j].genre # "" /\ Trim(bs[j].genre) # "" } }

getAllQuotes(bs) == SumQuotes(bs)

calculateAverageReadingSpeed(ss) ==
    IF Len(ss) = 0 THEN FracOfInt(0)
    ELSE IF SumDuration(ss) > 0 THEN Frac(SumPages(ss) * 60, SumDuration(ss))
    ELSE FracOfInt(0)

SessionDayStrings(ss) == { ss[i].day : i \in 1..Len(ss) }

RECURSIVE StreakLoop(_, _, _, _)
StreakLoop(i, currentDate, streak, dates) ==
    IF i < 365 /\ currentDate \in dates
    THEN StreakLoop(i + 1, currentDate - 1, streak + 1, dates)
    ELSE streak

calculateReadingStreak(ss, today) ==
    IF Len(ss) = 0 THEN 0 ELSE StreakLoop(0, today, 0, SessionDayStrings(ss))

calculateConsistentReadingDays(ss, today) ==
    IF Len(ss) = 0 THEN 0 ELSE StreakLoop(0, today, 0, SessionDayStrings(ss))

(***************************************************************************)
(* checkAchievements                                                       *)
(***************************************************************************)
\* A Date object (or, after a reload, its ISO string) is truthy in
\* JavaScript, new Date(0) included.
DateIsFalsy(earnedAt) == FALSE

HasMetric(type) ==
    type \in {"books_read", "pages_read", "reading_streak", "genre_diversity",
              "speed_reader", "quote_collector", "reading_time", "consistent_reader"}

\* The locals computed before the loop (lines 76-82), and consistentDays.
Metrics(bs, ss, today) ==
    [books_read        |-> FracOfInt(Len(completedOf(bs))),
     pages_read        |-> FracOfInt(calculateTotalPagesRead(bs, ss)),
     reading_streak    |-> FracOfInt(calculateReadingStreak(ss, today)),
     genre_diversity   |-> FracOfInt(Cardinality(getUniqueGenres(completedOf(bs)))),
     speed_reader      |-> calculateAverageReadingSpeed(ss),
     quote_collector   |-> FracOfInt(getAllQuotes(bs)),
     reading_time      |-> calculateTotalReadingTime(ss),
     consistent_reader |-> FracOfInt(calculateConsistentReadingDays(ss, today))]

\* ProgressOf that wraps around at 100 instead of clamping.
ProgressOf_Wraps(a, m) ==
    IF HasMetric(a.type)
    THEN LET x == FracMul(FracDiv(m[a.type], a.requirement), 100)
         IN  Frac(x.n % (100 * x.d), x.d)
    ELSE FracOfInt(0)

\* ProgressOf without Math.min(..., 100).
ProgressOf_NoClamp(a, m) ==
    IF HasMetric(a.type)
    THEN FracMul(FracDiv(m[a.type], a.requirement), 100)
    ELSE FracOfInt(0)

ProgressOf(a, m) ==
    IF HasMetric(a.type)
    THEN FracMin(FracMul(FracDiv(m[a.type], a.requirement), 100), FracOfInt(100))
    ELSE FracOfInt(0)

\* IsEarnedOf that holds only while the metric is below twice the requirement.
IsEarnedOf_Band(a, m) ==
    IF HasMetric(a.type)
    THEN /\ FracLeq(FracOfInt(a.requirement), m[a.type])
         /\ ~FracLeq(FracOfInt(2 * a.requirement), m[a.type])
    ELSE FALSE

IsEarnedOf(a, m) ==
    IF HasMetric(a.type)
    THEN FracLeq(FracOfInt(a.requirement), m[a.type])
    ELSE FALSE

\* A find that compares the wrong key and so never finds a record.
FindIndex_WrongKey(ua, id) == 0

\* Array.prototype.find: index of the first record with this id, 0 if none.
FindIndex(ua, id) ==
    LET n == Len(ua)
        k == CHOOSE i \in 1..(n + 1) :
                /\ i <= n => ua[i].achievementId = id
                /\ \A j \in 1..(i - 1) : ua[j].achievementId # id
    IN  IF k > n THEN 0 ELSE k

\* CheckOne without the early "continue" for earned records.
CheckOne_NoSkip(st, a, m, today) ==
    LET idx      == FindIndex(st.ua, a.id)
        progress == ProgressOf(a, m)
        isEarned == IsEarnedOf(a, m)
    IN  IF idx # 0
        THEN LET upd   == [st.ua[idx] EXCEPT !.progress = progress, !.isEarned = isEarned]
                 stamp == isEarned /\ DateIsFalsy(st.ua[idx].earnedAt)
                 rec   == IF stamp THEN [upd EXCEPT !.earnedAt = today] ELSE upd
             IN  [ua    |-> [st.ua EXCEPT ![idx] = rec],
                  newly |-> IF stamp THEN Append(st.newly, rec) ELSE st.newly]
        ELSE LET rec == [achievementId |-> a.id,
                         earnedAt      |-> IF isEarned THEN today ELSE Epoch,
                         progress      |-> progress,
                         isEarned      |-> isEarned]
             IN  [ua    |-> Append(st.ua, rec),
                  newly |-> IF isEarned THEN Append(st.newly, rec) ELSE st.newly]

\* CheckOne that returns a freshly earned record without storing it.
CheckOne_NoStore(st, a, m, today) ==
    LET idx      == FindIndex(st.ua, a.id)
        progress == ProgressOf(a, m)
        isEarned == IsEarnedOf(a, m)
    IN  IF idx # 0 /\ st.ua[idx].isEarned
        THEN st
        ELSE IF idx # 0
        THEN LET upd   == [st.ua[idx] EXCEPT !.progress = progress, !.isEarned = isEarned]
                 stamp == isEarned /\ DateIsFalsy(st.ua[idx].earnedAt)
                 rec   == IF stamp THEN [upd EXCEPT !.earnedAt = today] ELSE upd
             IN  [ua    |-> [st.ua EXCEPT ![idx] = rec],
                  newly |-> IF stamp THEN Append(st.newly, rec) ELSE st.newly]
        ELSE LET rec == [achievementId |-> a.id,
                         earnedAt      |-> IF isEarned THEN today ELSE Epoch,
                         progress      |-> progress,
                         isEarned      |-> isEarned]
             IN  [ua    |-> IF isEarned THEN st.ua ELSE Append(st.ua, rec),
                  newly |-> IF isEarned THEN Append(st.newly, rec) ELSE st.newly]

\* One iteration of the loop over the catalog; st = [ua, newly].
CheckOne(st, a, m, today) ==
    LET idx      == FindIndex(st.ua, a.id)
        progress == ProgressOf(a, m)
        isEarned == IsEarnedOf(a, m)
    IN  IF idx # 0 /\ st.ua[idx].isEarned
        THEN st
        ELSE IF idx # 0
        THEN LET upd   == [st.ua[idx] EXCEPT !.progress = progress, !.isEarned = isEarned]
                 stamp == isEarned /\ DateIsFalsy(st.ua[idx].earnedAt)
                 rec   == IF stamp THEN [upd EXCEPT !.earnedAt = today] ELSE upd
             IN  [ua    |-> [st.ua EXCEPT ![idx] = rec],
                  newly |-> IF stamp THEN Append(st.newly, rec) ELSE st.newly]
        ELSE LET rec == [achievementId |-> a.id,
                         earnedAt      |-> IF isEarned THEN today ELSE Epoch,
                         progress      |-> progress,
                         isEarned      |-> isEarned]
             IN  [ua    |-> Append(st.ua, rec),
                  newly |-> IF isEarned THEN Append(st.newly, rec) ELSE st.newly]

RECURSIVE CheckLoop(_, _, _, _)
CheckLoop(i, st, m, today) ==
    IF i > Len(achievements) THEN st
    ELSE LET nx == CheckOne(st, achievements[i], m, today)
         IN  IF Len(nx.ua) >= 0 THEN CheckLoop(i + 1, nx, m, today) ELSE nx

checkAchievements(ua, bs, ss, today) ==
    LET m == Metrics(bs, ss, today)
    IN  IF DOMAIN m # {} THEN CheckLoop(1, [ua |-> ua, newly |-> <<>>], m, today)
        ELSE [ua |-> ua, newly |-> <<>>]

(***************************************************************************)
(* AnalyticsService: reading streaks                                       *)
(***************************************************************************)
\* No Analytics record: nothing asked yet (error = ""), or the call threw.
NoAnalytics == [valid |-> FALSE, error |-> ""]

RangeError == [valid |-> FALSE, error |-> "RangeError: Invalid time value"]

\* The day of an Invalid Date (its getTime() is NaN).
InvalidDay == 0 - 1

NoMetric == 0 - 1

\* date.setHours(0, 0, 0, 0) on the session's own Date object.
SetHoursMidnight(session) == [session EXCEPT !.tod = 0]

\* The Set of ISO strings of the truncated dates, in insertion order.
RECURSIVE UniqueDaysFrom(_, _, _)
UniqueDaysFrom(ss, i, acc) ==
    IF i > Len(ss) THEN acc
    ELSE IF \E j \in 1..Len(acc) : acc[j] = ss[i].day
         THEN UniqueDaysFrom(ss, i + 1, acc)
         ELSE UniqueDaysFrom(ss, i + 1, Append(acc, ss[i].day))

getUniqueReadingDays(ss) == UniqueDaysFrom(ss, 1, <<>>)

\* What getUniqueReadingDays leaves behind in the sessions it was given.
\* forEach stops at the first Invalid Date, on which toISOString() throws.
FirstInvalid(ss) ==
    IF \E i \in 1..Len(ss) : ss[i].day = InvalidDay
    THEN CHOOSE i \in 1..Len(ss) :
            ss[i].day = InvalidDay /\ \A j \in 1..(i - 1) : ss[j].day # InvalidDay
    ELSE 0

TruncatedSessions(ss) ==
    [i \in 1..Len(ss) |->
        IF FirstInvalid(ss) = 0 \/ i < FirstInvalid(ss) THEN SetHoursMidnight(ss[i])
        ELSE ss[i]]

\* Array.prototype.sort((a, b) => a.getTime() - b.getTime())
RECURSIVE InsertAsc(_, _)
InsertAsc(x, sorted) ==
    IF sorted = <<>> THEN <<x>>
    ELSE IF x < Head(sorted) THEN <<x>> \o sorted
    ELSE <<Head(sorted)>> \o InsertAsc(x, Tail(sorted))

RECURSIVE SortAsc(_)
SortAsc(seq) == IF seq = <<>> THEN <<>> ELSE InsertAsc(Head(seq), SortAsc(Tail(seq)))

\* The walk that never raises longest above its initial 1.
RECURSIVE StreaksWalk_LongestStuck(_, _, _)
StreaksWalk_LongestStuck(uniqueDays, i, st) ==
    IF i > Len(uniqueDays) THEN st
    ELSE LET diffDays == uniqueDays[i] - uniqueDays[i - 1]
         IN  IF diffDays = 1
             THEN StreaksWalk_LongestStuck(uniqueDays, i + 1,
                     [st EXCEPT !.current = st.current + 1])
             ELSE IF diffDays > 1
             THEN StreaksWalk_LongestStuck(uniqueDays, i + 1, [st EXCEPT !.current = 1])
             ELSE StreaksWalk_LongestStuck(uniqueDays, i + 1, st)

\* The walk that restarts the running streak at 0 instead of 1 after a gap.
RECURSIVE StreaksWalk_ResetToZero(_, _, _)
StreaksWalk_ResetToZero(uniqueDays, i, st) ==
    IF i > Len(uniqueDays) THEN st
    ELSE LET diffDays == uniqueDays[i] - uniqueDays[i - 1]
         IN  IF diffDays = 1
             THEN StreaksWalk_ResetToZero(uniqueDays, i + 1,
                     [current |-> st.current + 1,
                      longest |-> IF st.current + 1 > st.longest
                                  THEN st.current + 1 ELSE st.longest])
             ELSE IF diffDays > 1
             THEN StreaksWalk_ResetToZero(uniqueDays, i + 1, [st EXCEPT !.current = 0])
             ELSE StreaksWalk_ResetToZero(uniqueDays, i + 1, st)

\* The loop over consecutive unique days; st = [current, longest].
RECURSIVE StreaksWalk(_, _, _)
StreaksWalk(uniqueDays, i, st) ==
    IF i > Len(uniqueDays) THEN st
    ELSE LET diffDays == uniqueDays[i] - uniqueDays[i - 1]
         IN  IF diffDays = 1
             THEN StreaksWalk(uniqueDays, i + 1,
                     [current |-> st.current + 1,
                      longest |-> IF st.current + 1 > st.longest
                                  THEN st.current + 1 ELSE st.longest])
             ELSE IF diffDays > 1
             THEN StreaksWalk(uniqueDays, i + 1, [st EXCEPT !.current = 1])
             ELSE StreaksWalk(uniqueDays, i + 1, st)

\* calculateReadingStreaks whose grace day is missing: a streak that ended
\* yesterday counts as 0.
calculateReadingStreaks_NoGrace(ss, today) ==
    IF Len(ss) = 0 THEN [currentStreak |-> 0, longestStreak |-> 0]
    ELSE LET uniqueDays == SortAsc(getUniqueReadingDays(ss))
             st         == StreaksWalk(uniqueDays, 2, [current |-> 1, longest |-> 1])
             gap        == today - uniqueDays[Len(uniqueDays)]
         IN  [currentStreak |-> IF gap = 0 THEN st.current ELSE 0,
              longestStreak |-> st.longest]

calculateReadingStreaks(ss, today) ==
    IF Len(ss) = 0 THEN [currentStreak |-> 0, longestStreak |-> 0]
    ELSE LET uniqueDays == SortAsc(getUniqueReadingDays(ss))
         IN  IF Len(uniqueDays) = 0 THEN [currentStreak |-> 0, longestStreak |-> 0]
             ELSE LET st  == StreaksWalk(uniqueDays, 2, [current |-> 1, longest |-> 1])
                      gap == today - uniqueDays[Len(uniqueDays)]
                  IN  [currentStreak |-> IF gap = 0 THEN st.current
                                         ELSE IF gap = 1 THEN st.current ELSE 0,
                       longestStreak |-> st.longest]

\* Date.getMonth() and getFullYear() taken together.
MonthOf(day) == (day - 1) \div MonthLength

calculateBooksThisMonth(bs, today) ==
    Len(SelectSeq(bs, LAMBDA b : b.finishDate # 0 /\ MonthOf(b.finishDate) = MonthOf(today)))

\* Math.floor in the place of Math.round.
Round_Floor(n, d) == n \div d

\* Math.round of the non-negative quotient n / d.
Round(n, d) == (2 * n + d) \div (2 * d)

\* Math.round(x * 10) / 10 of the non-negative quotient x = n / d.
RoundToTenth(n, d) == Frac(Round(10 * n, d), 10)

calculateAveragePagesPerDay(ss) ==
    IF Len(ss) = 0 THEN 0
    ELSE LET daysWithReading == getUniqueReadingDays(ss)
         IN  IF Len(daysWithReading) > 0
             THEN Round(SumPages(ss), Len(daysWithReading)) ELSE 0

\* The keys of genreCount in insertion order.
RECURSIVE GenreKeys(_, _, _)
GenreKeys(bs, i, acc) ==
    IF i > Len(bs) THEN acc
    ELSE IF bs[i].genre = "" \/ (\E j \in 1..Len(acc) : acc[j] = bs[i].genre)
         THEN GenreKeys(bs, i + 1, acc)
         ELSE GenreKeys(bs, i + 1, Append(acc, bs[i].genre))

GenreCount(bs, g) == Cardinality({ i \in 1..Len(bs) : bs[i].genre = g })

\* reduce((a, b) => genreCount[a] > genreCount[b] ? a : b)
RECURSIVE FavoriteFrom(_, _, _, _)
FavoriteFrom(bs, keys, i, a) ==
    IF i > Len(keys) THEN a
    ELSE FavoriteFrom(bs, keys, i + 1,
                      IF GenreCount(bs, a) > GenreCount(bs, keys[i]) THEN a ELSE keys[i])

\* undefined is modelled by "", which is never a counted genre.
calculateFavoriteGenre(bs) ==
    LET keys == GenreKeys(bs, 1, <<>>)
    IN  IF Len(keys) = 0 THEN "" ELSE FavoriteFrom(bs, keys, 2, keys[1])

RECURSIVE SumRating(_)
SumRating(bs) == IF bs = <<>> THEN 0 ELSE Head(bs).rating + SumRating(Tail(bs))

RECURSIVE SumTotalPages(_)
SumTotalPages(bs) == IF bs = <<>> THEN 0 ELSE Head(bs).totalPages + SumTotalPages(Tail(bs))

calculateAverageRating(bs) ==
    LET ratedBooks == SelectSeq(bs, LAMBDA b : b.rating # 0 /\ b.rating > 0)
    IN  IF Len(ratedBooks) = 0 THEN FracOfInt(0)
        ELSE RoundToTenth(SumRating(ratedBooks), Len(ratedBooks))

\* The AnalyticsService figure, hours rounded to one decimal.
calculateTotalReadingHours(ss) ==
    IF Len(ss) = 0 THEN FracOfInt(0) ELSE RoundToTenth(SumDuration(ss), 60)

calculateAverageBookLength(bs) ==
    IF Len(bs) = 0 THEN 0 ELSE Round(SumTotalPages(bs), Len(bs))

\* calculateReadingVelocity that reads zero hours as one hour.
calculateReadingVelocity_ZeroAsOne(ss) ==
    IF Len(ss) = 0 THEN FracOfInt(0)
    ELSE IF SumDuration(ss) = 0 THEN RoundToTenth(SumPages(ss), 1)
    ELSE RoundToTenth(SumPages(ss) * 60, SumDuration(ss))

calculateReadingVelocity(ss) ==
    IF Len(ss) = 0 THEN FracOfInt(0)
    ELSE IF SumDuration(ss) = 0 THEN FracOfInt(0)
    ELSE RoundToTenth(SumPages(ss) * 60, SumDuration(ss))

streakMilestones ==
    << [m |-> 3, id |-> "streak-3"], [m |-> 7, id |-> "streak-7"],
       [m |-> 14, id |-> "streak-14"], [m |-> 30, id |-> "streak-30"] >>

bookMilestones ==
    << [m |-> 1, id |-> "books-1"], [m |-> 5, id |-> "books-5"],
       [m |-> 10, id |-> "books-10"], [m |-> 25, id |-> "books-25"],
       [m |-> 50, id |-> "books-50"] >>

pagesMilestones ==
    << [m |-> 100, id |-> "pages-100"], [m |-> 500, id |-> "pages-500"],
       [m |-> 1000, id |-> "pages-1000"], [m |-> 5000, id |-> "pages-5000"],
       [m |-> 10000, id |-> "pages-10000"] >>

\* BadgesOf that asks for more than the milestone.
RECURSIVE BadgesOf_Strict(_, _, _)
BadgesOf_Strict(milestones, value, i) ==
    IF i > Len(milestones) THEN <<>>
    ELSE IF value > milestones[i].m
         THEN <<milestones[i].id>> \o BadgesOf_Strict(milestones, value, i + 1)
         ELSE BadgesOf_Strict(milestones, value, i + 1)

\* The ids of the milestones that value reaches, in ladder order.
RECURSIVE BadgesOf(_, _, _)
BadgesOf(milestones, value, i) ==
    IF i > Len(milestones) THEN <<>>
    ELSE IF value >= milestones[i].m
         THEN <<milestones[i].id>> \o BadgesOf(milestones, value, i + 1)
         ELSE BadgesOf(milestones, value, i + 1)

calculateBadges(bs, currentStreak, totalPagesRead) ==
    BadgesOf(streakMilestones, currentStreak, 1)
        \o BadgesOf(bookMilestones, Len(SelectSeq(bs, LAMBDA b : b.status = "completed")), 1)
        \o BadgesOf(pagesMilestones, totalPagesRead, 1)

\* getAnalytics throws out of getUniqueReadingDays when a session carries an
\* Invalid Date; otherwise it returns the Analytics record.
getAnalytics(bs, ss, today) ==
    IF FirstInvalid(ss) # 0 THEN RangeError
    ELSE
    LET streaks        == calculateReadingStreaks(ss, today)
        totalBooks     == Len(bs)
        completedBooks == Len(SelectSeq(bs, LAMBDA b : b.status = "completed"))
        totalPagesRead == IF Len(ss) > 0 THEN SumPages(ss) ELSE 0
    IN  [valid              |-> TRUE,
         error              |-> "",
         totalBooks         |-> totalBooks,
         completedBooks     |-> completedBooks,
         totalPagesRead     |-> totalPagesRead,
         averagePagesPerDay |-> calculateAveragePagesPerDay(ss),
         booksThisMonth     |-> calculateBooksThisMonth(bs, today),
         readingStreak      |-> streaks.currentStreak,
         longestStreak      |-> streaks.longestStreak,
         favoriteGenre      |-> calculateFavoriteGenre(bs),
         averageRating      |-> calculateAverageRating(bs),
         totalReadingTime   |-> calculateTotalReadingHours(ss),
         averageBookLength  |-> calculateAverageBookLength(bs),
         completionRate     |-> IF totalBooks > 0
                                THEN Round(completedBooks * 100, totalBooks) ELSE 0,
         readingVelocity    |-> calculateReadingVelocity(ss),
         badges             |-> calculateBadges(bs, streaks.currentStreak, totalPagesRead)]

(***************************************************************************)
(* BookService                                                             *)
(***************************************************************************)
\* The duplicate detection of addBook: same normalized title and author.
IsDuplicate(bs, bookData) == \E i \in 1..Len(bs) : bs[i].id = bookData.id

addBook(bs, bookData) == Append(bs, bookData)

updateBook(bs, id, updates) ==
    [i \in 1..Len(bs) |->
        IF bs[i].id = id
        THEN [bs[i] EXCEPT !.status = updates.status, !.currentPage = updates.currentPage]
        ELSE bs[i]]

\* deleteBook removes the book and the sessions logged for it.
deleteBook(bs, ss, id) ==
    [books    |-> SelectSeq(bs, LAMBDA b : b.id # id),
     sessions |-> SelectSeq(ss, LAMBDA x : x.bookId # id)]

\* addReadingSession without Math.min(..., book.totalPages).
addReadingSession_NoClamp(bs, ss, sessionData, today) ==
    [books    |-> [i \in 1..Len(bs) |->
                    IF bs[i].id = sessionData.bookId
                    THEN LET page == bs[i].currentPage + sessionData.pagesRead
                         IN  IF page >= bs[i].totalPages /\ bs[i].status = "reading"
                             THEN [bs[i] EXCEPT !.currentPage = page,
                                                !.status = "completed",
                                                !.finishDate = today]
                             ELSE [bs[i] EXCEPT !.currentPage = page]
                    ELSE bs[i]],
     sessions |-> Append(ss, sessionData)]

addReadingSession(bs, ss, sessionData, today) ==
    [books    |-> [i \in 1..Len(bs) |->
                    IF bs[i].id = sessionData.bookId
                    THEN LET page == Min(bs[i].currentPage + sessionData.pagesRead,
                                         bs[i].totalPages)
                         IN  IF page >= bs[i].totalPages /\ bs[i].status = "reading"
                             THEN [bs[i] EXCEPT !.currentPage = page,
                                                !.status = "completed",
                                                !.finishDate = today]
                             ELSE [bs[i] EXCEPT !.currentPage = page]
                    ELSE bs[i]],
     sessions |-> Append(ss, sessionData)]

(***************************************************************************)
(* GoalService                                                             *)
(***************************************************************************)
\* getTime() of a date: the day and whether it is past midnight.
Instant(day, tod) == 2 * day + tod

NoGoalOp == [op |-> "none", id |-> 0, error |-> "", seq |-> 0, prev |-> "none"]

NoGoalStatus == [asked |-> FALSE, id |-> 0, at |-> 0, status |-> ""]

\* generateId() never hands out the same id twice; ids are numbered.
addGoal(gs, goalData, id) ==
    Append(gs, [id |-> id, type |-> goalData.type, period |-> goalData.period,
                target |-> goalData.target, startDate |-> goalData.startDate,
                endDate |-> goalData.endDate, isActive |-> goalData.isActive,
                currentProgress |-> 0])

\* Array.prototype.findIndex: 0 when no goal has this id.
GoalIndex(gs, id) ==
    IF \E i \in 1..Len(gs) : gs[i].id = id
    THEN CHOOSE i \in 1..Len(gs) :
            gs[i].id = id /\ \A j \in 1..(i - 1) : gs[j].id # id
    ELSE 0

\* { ...goal, ...updates }
Merge(goal, updates) ==
    [f \in DOMAIN goal |-> IF f \in DOMAIN updates THEN updates[f] ELSE goal[f]]

\* updateGoal that stores the updates as a new goal when the id is unknown.
updateGoal_Upsert(gs, id, updates) ==
    LET goalIndex == GoalIndex(gs, id)
    IN  IF goalIndex = 0
        THEN [goals |-> Append(gs, updates), error |-> "Goal not found"]
        ELSE [goals |-> [gs EXCEPT ![goalIndex] = Merge(gs[goalIndex], updates)],
              error |-> ""]

\* updateGoal throws 'Goal not found' before it touches the collection.
updateGoal(gs, id, updates) ==
    LET goalIndex == GoalIndex(gs, id)
    IN  IF goalIndex = 0
        THEN [goals |-> gs, error |-> "Goal not found"]
        ELSE [goals |-> [gs EXCEPT ![goalIndex] = Merge(gs[goalIndex], updates)],
              error |-> ""]

deleteGoal(gs, id) == SelectSeq(gs, LAMBDA g : g.id # id)

isDateInPeriod(date, startDate, endDate) == date >= startDate /\ date <= endDate

getPagesReadThisMonth(ss, today) ==
    SumPages(SelectSeq(ss, LAMBDA x : MonthOf(x.day) = MonthOf(today)))

\* The progress chosen by the type and period of a goal (lines 74-88).
GoalProgress(goal, an, ss, today) ==
    IF goal.type = "books"
    THEN IF goal.period = "month" THEN an.booksThisMonth
         ELSE IF goal.period = "year" THEN an.completedBooks ELSE 0
    ELSE IF goal.type = "pages"
    THEN IF goal.period = "month" THEN getPagesReadThisMonth(ss, today)
         ELSE IF goal.period = "year" THEN an.totalPagesRead ELSE 0
    ELSE 0

\* updateGoalProgress without Math.min(progress, goal.target).
updateGoalProgress_NoClamp(gs, bs, ss, today) ==
    LET an == getAnalytics(bs, ss, today)
    IN  IF an.error # "" THEN gs ELSE
        [i \in 1..Len(gs) |->
            IF ~gs[i].isActive THEN gs[i]
            ELSE IF isDateInPeriod(Instant(today, 1), Instant(gs[i].startDate, 0),
                                   Instant(gs[i].endDate, 0))
            THEN [gs[i] EXCEPT !.currentProgress = GoalProgress(gs[i], an, ss, today)]
            ELSE gs[i]]

\* updateGoalProgress that clears the progress of a goal outside its window.
updateGoalProgress_ClearsStale(gs, bs, ss, today) ==
    LET an == getAnalytics(bs, ss, today)
    IN  IF an.error # "" THEN gs ELSE
        [i \in 1..Len(gs) |->
            IF ~gs[i].isActive THEN gs[i]
            ELSE IF isDateInPeriod(Instant(today, 1), Instant(gs[i].startDate, 0),
                                   Instant(gs[i].endDate, 0))
            THEN [gs[i] EXCEPT !.currentProgress =
                        Min(GoalProgress(gs[i], an, ss, today), gs[i].target)]
            ELSE [gs[i] EXCEPT !.currentProgress = 0]]

\* new Date() is taken during the day; the dates of a goal are midnights.
\* updateGoalProgress that adds the metric to the stored progress.
updateGoalProgress_Accumulates(gs, bs, ss, today) ==
    LET an == getAnalytics(bs, ss, today)
    IN  IF an.error # "" THEN gs ELSE
        [i \in 1..Len(gs) |->
            IF ~gs[i].isActive THEN gs[i]
            ELSE IF isDateInPeriod(Instant(today, 1), Instant(gs[i].startDate, 0),
                                   Instant(gs[i].endDate, 0))
            THEN [gs[i] EXCEPT !.currentProgress =
                        Min(gs[i].currentProgress + GoalProgress(gs[i], an, ss, today),
                            gs[i].target)]
            ELSE gs[i]]

updateGoalProgress(gs, bs, ss, today) ==
    LET an == getAnalytics(bs, ss, today)
    IN  IF an.error # "" THEN gs ELSE
        [i \in 1..Len(gs) |->
            IF ~gs[i].isActive THEN gs[i]
            ELSE IF isDateInPeriod(Instant(today, 1), Instant(gs[i].startDate, 0),
                                   Instant(gs[i].endDate, 0))
            THEN [gs[i] EXCEPT !.currentProgress =
                        Min(GoalProgress(gs[i], an, ss, today), gs[i].target)]
            ELSE gs[i]]

isGoalCompleted(goal) == goal.currentProgress >= goal.target

\* Math.ceil of the quotient n / d, d > 0.
Ceil(n, d) == 0 - ((0 - n) \div d)

\* Instants count half days, so a day is 2 of them.
getDaysRemaining(goal, at) == Ceil(Instant(goal.endDate, 0) - at, 2)

\* getGoalStatus with the threshold taken strictly.
getGoalStatus_StrictThreshold(goal, at) ==
    IF isGoalCompleted(goal) THEN "completed"
    ELSE LET daysRemaining == getDaysRemaining(goal, at)
             totalDays     == Ceil(Instant(goal.endDate, 0) - Instant(goal.startDate, 0), 2)
             daysElapsed   == totalDays - daysRemaining
         IN  IF daysElapsed <= 0 THEN "not-started"
             ELSE IF totalDays = 0 THEN "behind"
             ELSE LET expectedProgress == Frac(daysElapsed * goal.target, totalDays)
                  IN  IF expectedProgress.n = 0 THEN "behind"
                      ELSE IF 5 * goal.currentProgress * expectedProgress.d
                                 > 4 * expectedProgress.n
                      THEN "on-track" ELSE "behind"

\* at is the instant of new Date().  With totalDays = 0 the quotient
\* daysElapsed / totalDays is Infinity and the ratio 0 (or NaN), which is
\* below 0.8; so is the ratio of a zero currentProgress over a zero
\* expectedProgress.  progressRatio >= 0.8 is 5 * currentProgress >= 4 *
\* expectedProgress.
getGoalStatus(goal, at) ==
    IF isGoalCompleted(goal) THEN "completed"
    ELSE LET daysRemaining == getDaysRemaining(goal, at)
             totalDays     == Ceil(Instant(goal.endDate, 0) - Instant(goal.startDate, 0), 2)
             daysElapsed   == totalDays - daysRemaining
         IN  IF daysElapsed <= 0 THEN "not-started"
             ELSE IF totalDays = 0 THEN "behind"
             ELSE LET expectedProgress == Frac(daysElapsed * goal.target, totalDays)
                  IN  IF expectedProgress.n = 0 THEN "behind"
                      ELSE IF 5 * goal.currentProgress * expectedProgress.d
                                 >= 4 * expectedProgress.n
                      THEN "on-track" ELSE "behind"

(***************************************************************************)
(* Inputs of the engine: the caller holds some of the user's books and     *)
(* some of the logged sessions, in the order they were created.            *)
(***************************************************************************)
Library ==
    << [id |-> "b1", status |-> "completed", genre |-> "fiction", quotes |-> 10,
        currentPage |-> 300, totalPages |-> 300, finishDate |-> 1, rating |-> 4],
       [id |-> "b2", status |-> "reading",   genre |-> "science", quotes |-> 5,
        currentPage |-> 0, totalPages |-> 200, finishDate |-> 0, rating |-> 0] >>

\* What the goal form can submit: target > 0, startDate before endDate.
GoalForms ==
    << [type |-> "books", period |-> "year", target |-> 1,
        startDate |-> 1, endDate |-> MaxDay, isActive |-> TRUE],
       [type |-> "pages", period |-> "month", target |-> 500,
        startDate |-> 1, endDate |-> MaxDay, isActive |-> TRUE] >>

SessionLog ==
    << [bookId |-> "b1", day |-> 1, tod |-> 1, pagesRead |-> 450, duration |-> 600],
       [bookId |-> "b2", day |-> 2, tod |-> 1, pagesRead |-> 800, duration |-> 0] >>

RECURSIVE Pick(_, _, _)
Pick(seq, S, i) ==
    IF i > Len(seq) THEN <<>>
    ELSE IF i \in S THEN <<seq[i]>> \o Pick(seq, S, i + 1)
    ELSE Pick(seq, S, i + 1)

SubLists(seq) == { Pick(seq, S, 1) : S \in SUBSET (1..Len(seq)) }

BookInputs == SubLists(Library)

SessionInputs == SubLists(SessionLog)

(***************************************************************************)
(* Specification of the achievement engine under arbitrary callers         *)
(***************************************************************************)
CatalogIds == { achievements[k].id : k \in 1..Len(achievements) }

CountIn(seq, id) == Cardinality({ i \in 1..Len(seq) : seq[i].achievementId = id })

EngineInit ==
    /\ userAchievements = <<>>
    /\ now = 1
    /\ argBooks = <<>>
    /\ argSessions = <<>>
    /\ argNow = 0
    /\ newAchievements = <<>>
    /\ calls = 0
    /\ repeated = FALSE
    /\ timesReturned = [id \in CatalogIds |-> 0]
    /\ readingSessions = <<>>
    /\ analytics = NoAnalytics
    /\ streakMetric = NoMetric
    /\ books = <<>>
    /\ appBooks = <<>>
    /\ goals = <<>>
    /\ mounted = FALSE
    /\ nextId = 1
    /\ goalOp = NoGoalOp
    /\ goalStatus = NoGoalStatus
    /\ showAddForm = FALSE
    /\ editingGoal = 0

\* achievementService.checkAchievements(books, sessions) called with any arrays.
CheckAchievements ==
    /\ calls < MaxCalls
    /\ \E bs \in BookInputs, ss \in SessionInputs :
        \E r \in { checkAchievements(userAchievements, bs, ss, now) } :
            /\ userAchievements' = r.ua
            /\ newAchievements' = r.newly
            /\ argBooks' = bs
            /\ argSessions' = ss
            /\ argNow' = now
            /\ calls' = calls + 1
            /\ repeated' = (calls >= 1 /\ bs = argBooks /\ ss = argSessions /\ now = argNow)
            /\ timesReturned' = [id \in CatalogIds |->
                                    timesReturned[id] + CountIn(r.newly, id)]
            /\ UNCHANGED <<now, metricVars, appVars, goalVars>>

\* Midnight passes.
AdvanceClock ==
    /\ now < MaxNow
    /\ now' = now + 1
    /\ UNCHANGED <<engineVars, metricVars, appVars, goalVars>>

EngineNext == CheckAchievements \/ AdvanceClock

EngineSpec == EngineInit /\ [][EngineNext]_vars

(***************************************************************************)
(* Specification of the two streak calculations on any session log         *)
(***************************************************************************)
SeqsUpTo(S, n) == UNION { [1..k -> S] : k \in 0..n }

StreakInit ==
    /\ now \in 1..MaxDay
    /\ \E days \in SeqsUpTo(1..MaxDay, MaxSessions) :
          readingSessions = [i \in 1..Len(days) |->
              [bookId |-> "b1", day |-> days[i], tod |-> 1,
               pagesRead |-> 10, duration |-> 30]]
    /\ analytics = NoAnalytics
    /\ streakMetric = NoMetric
    /\ books = <<>>
    /\ appBooks = <<>>
    /\ goals = <<>>
    /\ mounted = FALSE
    /\ nextId = 1
    /\ goalOp = NoGoalOp
    /\ goalStatus = NoGoalStatus
    /\ showAddForm = FALSE
    /\ editingGoal = 0
    /\ userAchievements = <<>>
    /\ argBooks = <<>>
    /\ argSessions = <<>>
    /\ argNow = 0
    /\ newAchievements = <<>>
    /\ calls = 0
    /\ repeated = FALSE
    /\ timesReturned = [id \in CatalogIds |-> 0]

\* analyticsService.getAnalytics() on the sessions of the book store.
GetAnalytics ==
    /\ analytics' = getAnalytics(books, readingSessions, now)
    /\ readingSessions' = TruncatedSessions(readingSessions)
    /\ UNCHANGED <<now, streakMetric, engineVars, appVars, goalVars>>

\* The readingStreak local of checkAchievements (line 82) on the same sessions.
CalculateReadingStreak ==
    /\ streakMetric' = calculateReadingStreak(readingSessions, now)
    /\ UNCHANGED <<now, readingSessions, analytics, engineVars, appVars, goalVars>>

StreakNext == GetAnalytics \/ CalculateReadingStreak

StreakSpec == StreakInit /\ [][StreakNext]_vars

(***************************************************************************)
(* Specification of the App: the handlers of AppContent and of the         *)
(* components it renders, over the stores of the three services            *)
(***************************************************************************)
AppInit ==
    /\ userAchievements = <<>>
    /\ now = 1
    /\ argBooks = <<>>
    /\ argSessions = <<>>
    /\ argNow = 0
    /\ newAchievements = <<>>
    /\ calls = 0
    /\ repeated = FALSE
    /\ timesReturned = [id \in CatalogIds |-> 0]
    /\ readingSessions = <<>>
    /\ analytics = NoAnalytics
    /\ streakMetric = NoMetric
    /\ books = <<>>
    /\ appBooks = <<>>
    /\ goals = <<>>
    /\ mounted = FALSE
    /\ nextId = 1
    /\ goalOp = NoGoalOp
    /\ goalStatus = NoGoalStatus
    /\ showAddForm = FALSE
    /\ editingGoal = 0

\* loadAnalytics(); updateGoalProgress(); checkAchievements(); as every
\* handler of AppContent issues them, on the stores storeBooks and
\* storeSessions.  closureBooks is the books state that the closure of
\* checkAchievements captured when the handler was created.
LoadUpdateCheck(storeBooks, storeSessions, closureBooks) ==
    \E r \in { checkAchievements(userAchievements, closureBooks, storeSessions, now) } :
        /\ books' = storeBooks
        /\ readingSessions' = TruncatedSessions(storeSessions)
        /\ analytics' = IF getAnalytics(storeBooks, storeSessions, now).error # ""
                        THEN analytics
                        ELSE getAnalytics(storeBooks, storeSessions, now)
        /\ goals' = updateGoalProgress(goals, storeBooks, storeSessions, now)
        /\ userAchievements' = r.ua
        /\ newAchievements' = r.newly
        /\ argBooks' = closureBooks
        /\ argSessions' = storeSessions
        /\ argNow' = now
        /\ calls' = calls + 1
        /\ repeated' = (calls >= 1 /\ closureBooks = argBooks
                            /\ storeSessions = argSessions /\ now = argNow)
        /\ timesReturned' = [id \in CatalogIds |->
                                timesReturned[id] + CountIn(r.newly, id)]

\* The mount effect: loadBooks, loadAnalytics, updateGoalProgress and
\* checkAchievements of the first render, whose books state is [].
Mount ==
    /\ ~mounted
    /\ calls < MaxHandlers
    /\ mounted' = TRUE
    /\ appBooks' = books
    /\ LoadUpdateCheck(books, readingSessions, <<>>)
    /\ UNCHANGED <<now, streakMetric, goalVars>>

HandleAddBook ==
    /\ mounted
    /\ calls < MaxHandlers
    /\ \E k \in 1..Len(Library) :
        /\ ~IsDuplicate(books, Library[k])
        /\ appBooks' = Append(appBooks, Library[k])
        /\ LoadUpdateCheck(addBook(books, Library[k]), readingSessions, appBooks)
    /\ UNCHANGED <<now, streakMetric, mounted, goalVars>>

\* The edit form of a book card saved with the book marked completed.
HandleUpdateBook ==
    /\ mounted
    /\ calls < MaxHandlers
    /\ \E i \in 1..Len(appBooks) :
        \E updates \in { [status |-> "completed", currentPage |-> appBooks[i].totalPages] } :
            /\ appBooks[i].status # updates.status
            /\ \E stored \in { updateBook(books, appBooks[i].id, updates) } :
                /\ appBooks' = [j \in 1..Len(appBooks) |->
                                  IF appBooks[j].id = appBooks[i].id
                                  THEN stored[CHOOSE n \in 1..Len(stored) :
                                                  stored[n].id = appBooks[i].id]
                                  ELSE appBooks[j]]
                /\ LoadUpdateCheck(stored, readingSessions, appBooks)
    /\ UNCHANGED <<now, streakMetric, mounted, goalVars>>

HandleDeleteBook ==
    /\ mounted
    /\ calls < MaxHandlers
    /\ \E i \in 1..Len(appBooks) :
        \E r \in { deleteBook(books, readingSessions, appBooks[i].id) } :
            /\ appBooks' = SelectSeq(appBooks, LAMBDA b : b.id # appBooks[i].id)
            /\ LoadUpdateCheck(r.books, r.sessions, appBooks)
    /\ UNCHANGED <<now, streakMetric, mounted, goalVars>>

\* The session form of a book card: the session is stored, then the page
\* is reloaded and AppContent mounts again on the persisted stores.
HandleSessionSubmit ==
    /\ mounted
    /\ calls < MaxHandlers
    /\ \E i \in 1..Len(appBooks) :
        /\ appBooks[i].totalPages - appBooks[i].currentPage > 0
        /\ \E sessionData \in { [bookId |-> appBooks[i].id, day |-> now, tod |-> 0,
                                 pagesRead |-> appBooks[i].totalPages - appBooks[i].currentPage,
                                 duration |-> 60] } :
            \E r \in { addReadingSession(books, readingSessions, sessionData, now) } :
                /\ appBooks' = r.books
                /\ LoadUpdateCheck(r.books, r.sessions, <<>>)
    /\ UNCHANGED <<now, streakMetric, mounted, goalVars>>

\* ReadingGoals.handleAddGoal, whose onGoalUpdate is App.updateGoalProgress.
HandleAddGoal ==
    /\ mounted
    /\ Len(goals) < MaxGoals
    /\ \E k \in 1..Len(GoalForms) :
          goals' = updateGoalProgress(addGoal(goals, GoalForms[k], nextId),
                                      books, readingSessions, now)
    /\ nextId' = nextId + 1
    /\ readingSessions' = TruncatedSessions(readingSessions)
    /\ UNCHANGED <<now, engineVars, analytics, streakMetric, books, appBooks, mounted,
                   goalOp, goalStatus, showAddForm, editingGoal>>

AppClock ==
    /\ now < MaxNow
    /\ now' = now + 1
    /\ UNCHANGED <<engineVars, metricVars, appVars, goalVars>>

AppNext ==
    \/ Mount
    \/ HandleAddBook
    \/ HandleUpdateBook
    \/ HandleDeleteBook
    \/ HandleSessionSubmit
    \/ HandleAddGoal
    \/ AppClock

AppSpec == AppInit /\ [][AppNext]_vars

(***************************************************************************)
(* Specification of GoalService over a stocked book store: any caller may  *)
(* add, edit, delete goals and recompute their progress                    *)
(***************************************************************************)
\* The library with one more book, finished in a later month.
Shelf ==
    Library \o << [id |-> "b3", status |-> "completed", genre |-> "fiction", quotes |-> 0,
                   currentPage |-> 100, totalPages |-> 100, finishDate |-> MaxDay,
                   rating |-> 5] >>

\* The session log with one more session, dated in a later month.
ShelfSessions ==
    SessionLog \o << [bookId |-> "b3", day |-> MaxDay, tod |-> 1,
                      pagesRead |-> 100, duration |-> 30] >>

GoalTargets(type) == IF type = "books" THEN {1, 3} ELSE {500, 2000}

GoalWindows == { <<1, MaxDay>>, <<MaxDay - 1, MaxDay>> }

\* What a caller of addGoal can pass: target > 0, startDate before endDate.
GoalData ==
    { [type |-> t, period |-> p, target |-> g, startDate |-> w[1], endDate |-> w[2],
       isActive |-> TRUE] :
        t \in {"books", "pages"}, p \in {"month", "year"},
        g \in GoalTargets("books") \cup GoalTargets("pages"), w \in GoalWindows }

\* The edits a caller of updateGoal passes for a goal: toggling isActive,
\* lowering the target, moving the window.
GoalUpdates(gs, id) ==
    { [target |-> 1], [startDate |-> MaxDay - 1, endDate |-> MaxDay] }
        \cup { [isActive |-> ~gs[i].isActive] : i \in { j \in 1..Len(gs) : gs[j].id = id } }

GoalInit ==
    /\ userAchievements = <<>>
    /\ now \in 1..MaxNow
    /\ argBooks = <<>>
    /\ argSessions = <<>>
    /\ argNow = 0
    /\ newAchievements = <<>>
    /\ calls = 0
    /\ repeated = FALSE
    /\ timesReturned = [id \in CatalogIds |-> 0]
    /\ readingSessions = ShelfSessions
    /\ analytics = NoAnalytics
    /\ streakMetric = NoMetric
    /\ books = Shelf
    /\ appBooks = <<>>
    /\ goals = <<>>
    /\ mounted = FALSE
    /\ nextId = 1
    /\ goalOp = NoGoalOp
    /\ goalStatus = NoGoalStatus
    /\ showAddForm = FALSE
    /\ editingGoal = 0

GoalFrame == UNCHANGED <<now, engineVars, analytics, streakMetric, books, appBooks,
                         mounted, goalStatus, showAddForm, editingGoal>>

AddGoal ==
    /\ goalOp.seq < MaxGoalOps
    /\ Len(goals) < MaxGoals
    /\ \E goalData \in GoalData :
        /\ goalData.target \in GoalTargets(goalData.type)
        /\ goals' = addGoal(goals, goalData, nextId)
    /\ nextId' = nextId + 1
    /\ goalOp' = [op |-> "addGoal", id |-> nextId, error |-> "",
                  seq |-> goalOp.seq + 1, prev |-> goalOp.op]
    /\ UNCHANGED readingSessions
    /\ GoalFrame

UpdateGoal ==
    /\ goalOp.seq < MaxGoalOps
    /\ \E id \in 1..nextId :
        \E updates \in GoalUpdates(goals, id) :
            \E r \in { updateGoal(goals, id, updates) } :
                /\ goals' = r.goals
                /\ goalOp' = [op |-> "updateGoal", id |-> id, error |-> r.error,
                              seq |-> goalOp.seq + 1, prev |-> goalOp.op]
    /\ UNCHANGED <<nextId, readingSessions>>
    /\ GoalFrame

DeleteGoal ==
    /\ goalOp.seq < MaxGoalOps
    /\ \E id \in 1..nextId :
        /\ goals' = deleteGoal(goals, id)
        /\ goalOp' = [op |-> "deleteGoal", id |-> id, error |-> "",
                      seq |-> goalOp.seq + 1, prev |-> goalOp.op]
    /\ UNCHANGED <<nextId, readingSessions>>
    /\ GoalFrame

\* goalService.updateGoalProgress(): the analytics it asks for leave the
\* dates of the stored sessions at midnight.
UpdateGoalProgress ==
    /\ goalOp.seq < MaxGoalOps
    /\ goals' = updateGoalProgress(goals, books, readingSessions, now)
    /\ readingSessions' = TruncatedSessions(readingSessions)
    /\ goalOp' = [op |-> "updateGoalProgress", id |-> 0,
                  error |-> getAnalytics(books, readingSessions, now).error,
                  seq |-> goalOp.seq + 1, prev |-> goalOp.op]
    /\ UNCHANGED nextId
    /\ GoalFrame

GoalNext == AddGoal \/ UpdateGoal \/ DeleteGoal \/ UpdateGoalProgress

GoalSpec == GoalInit /\ [][GoalNext]_vars

(***************************************************************************)
(* Specification of the goal form of ReadingGoals: the Add Goal button,    *)
(* the edit button of a goal, the form's cancel and submit                 *)
(***************************************************************************)
\* What the form can hold at submit.  Every field is editable: the user
\* submits new contents or, in edit mode, the fields of the edited goal
\* with the target kept or retyped.
FormData(gs, editing) ==
    { goalData \in GoalData : goalData.target \in GoalTargets(goalData.type) }
        \cup (IF GoalIndex(gs, editing) = 0 THEN {}
              ELSE LET g == gs[GoalIndex(gs, editing)]
                   IN  { [type |-> g.type, period |-> g.period, target |-> t,
                          startDate |-> g.startDate, endDate |-> g.endDate,
                          isActive |-> g.isActive] :
                            t \in {g.target} \cup GoalTargets(g.type) })

FormInit ==
    /\ userAchievements = <<>>
    /\ now \in 1..MaxNow
    /\ argBooks = <<>>
    /\ argSessions = <<>>
    /\ argNow = 0
    /\ newAchievements = <<>>
    /\ calls = 0
    /\ repeated = FALSE
    /\ timesReturned = [id \in CatalogIds |-> 0]
    /\ readingSessions = ShelfSessions
    /\ analytics = NoAnalytics
    /\ streakMetric = NoMetric
    /\ books = Shelf
    /\ appBooks = <<>>
    /\ goals = <<>>
    /\ mounted = TRUE
    /\ nextId = 1
    /\ goalOp = NoGoalOp
    /\ goalStatus = NoGoalStatus
    /\ showAddForm = FALSE
    /\ editingGoal = 0

FormFrame == UNCHANGED <<now, engineVars, metricVars, appVars, nextId, goalOp, goalStatus>>

\* The Add Goal button: setShowAddForm(true).
ShowAddForm ==
    /\ ~showAddForm
    /\ showAddForm' = TRUE
    /\ UNCHANGED editingGoal
    /\ FormFrame

\* The edit button of a goal card: setEditingGoal(goal).
EditGoal ==
    /\ \E i \in 1..Len(goals) :
          /\ editingGoal # goals[i].id
          /\ editingGoal' = goals[i].id
    /\ UNCHANGED showAddForm
    /\ FormFrame

\* onCancel of the form: both states are reset.
CancelForm ==
    /\ showAddForm \/ editingGoal # 0
    /\ showAddForm' = FALSE
    /\ editingGoal' = 0
    /\ FormFrame

\* GoalForm.handleSubmit: validateForm, then onSubmit, which is
\* handleAddGoal in either mode: goalService.addGoal, loadGoals,
\* setShowAddForm(false) and onGoalUpdate, the App's updateGoalProgress.
GoalFormSubmit ==
    /\ showAddForm \/ editingGoal # 0
    /\ goalOp.seq + 2 <= MaxGoalOps
    /\ \E goalData \in FormData(goals, editingGoal) :
          /\ goalData.target > 0
          /\ goalData.startDate < goalData.endDate
          /\ goals' = updateGoalProgress(addGoal(goals, goalData, nextId),
                                         books, readingSessions, now)
    /\ nextId' = nextId + 1
    /\ readingSessions' = TruncatedSessions(readingSessions)
    /\ showAddForm' = FALSE
    /\ goalOp' = [op |-> "updateGoalProgress", id |-> 0, error |-> "",
                  seq |-> goalOp.seq + 2, prev |-> "addGoal"]
    /\ UNCHANGED <<now, engineVars, analytics, streakMetric, books, appBooks, mounted,
                   goalStatus, editingGoal>>

FormNext == ShowAddForm \/ EditGoal \/ CancelForm \/ GoalFormSubmit

FormSpec == FormInit /\ [][FormNext]_vars

(***************************************************************************)
(* Specification of getAnalytics over any stored books and sessions, a     *)
(* session with a malformed date among them                                *)
(***************************************************************************)
\* Sessions as the store can hold them: on a day or with an Invalid Date,
\* with or without a duration.
LoggedSessions ==
    { [bookId |-> "b1", day |-> dy, tod |-> 1, pagesRead |-> 120, duration |-> du] :
        dy \in {1, 2, InvalidDay}, du \in {0, 45} }

AnalyticsInit ==
    /\ userAchievements = <<>>
    /\ now \in 1..MaxNow
    /\ argBooks = <<>>
    /\ argSessions = <<>>
    /\ argNow = 0
    /\ newAchievements = <<>>
    /\ calls = 0
    /\ repeated = FALSE
    /\ timesReturned = [id \in CatalogIds |-> 0]
    /\ readingSessions \in SeqsUpTo(LoggedSessions, MaxLogged)
    /\ analytics = NoAnalytics
    /\ streakMetric = NoMetric
    /\ books \in SubLists(Shelf)
    /\ appBooks = <<>>
    /\ goals = <<>>
    /\ mounted = FALSE
    /\ nextId = 1
    /\ goalOp = NoGoalOp
    /\ goalStatus = NoGoalStatus
    /\ showAddForm = FALSE
    /\ editingGoal = 0

AnalyticsNext == GetAnalytics

AnalyticsSpec == AnalyticsInit /\ [][AnalyticsNext]_vars

(***************************************************************************)
(* Specification of getAnalytics over a bookcase and a log of reading on   *)
(* consecutive days                                                        *)
(***************************************************************************)
\* The shelf with a fourth book, finished as well.
Bookcase ==
    Shelf \o << [id |-> "b4", status |-> "completed", genre |-> "history", quotes |-> 0,
                 currentPage |-> 250, totalPages |-> 250, finishDate |-> 2,
                 rating |-> 3] >>

\* Sessions on three days in a row.
ReadingLog ==
    << [bookId |-> "b1", day |-> 1, tod |-> 1, pagesRead |-> 100, duration |-> 30],
       [bookId |-> "b1", day |-> 2, tod |-> 1, pagesRead |-> 400, duration |-> 60],
       [bookId |-> "b4", day |-> 3, tod |-> 1, pagesRead |-> 700, duration |-> 90] >>

SummaryInit ==
    /\ userAchievements = <<>>
    /\ now \in 1..MaxDay
    /\ argBooks = <<>>
    /\ argSessions = <<>>
    /\ argNow = 0
    /\ newAchievements = <<>>
    /\ calls = 0
    /\ repeated = FALSE
    /\ timesReturned = [id \in CatalogIds |-> 0]
    /\ readingSessions \in SubLists(ReadingLog)
    /\ analytics = NoAnalytics
    /\ streakMetric = NoMetric
    /\ books \in SubLists(Bookcase)
    /\ appBooks = <<>>
    /\ goals = <<>>
    /\ mounted = FALSE
    /\ nextId = 1
    /\ goalOp = NoGoalOp
    /\ goalStatus = NoGoalStatus
    /\ showAddForm = FALSE
    /\ editingGoal = 0

SummaryNext == GetAnalytics

SummarySpec == SummaryInit /\ [][SummaryNext]_vars

(***************************************************************************)
(* Specification of BookService.addReadingSession under arbitrary callers  *)
(***************************************************************************)
\* The library with a third book, paused part-way.
Stock ==
    Library \o << [id |-> "b5", status |-> "paused", genre |-> "poetry", quotes |-> 0,
                   currentPage |-> 40, totalPages |-> 100, finishDate |-> 0,
                   rating |-> 0] >>

\* The books a caller names: one being read, the paused one, one that is
\* not in the store.
SessionBookIds == {"b2", "b5", "b9"}

\* Fewer pages than any book has left, and more than any book has.
SessionPages == {50, 400}

SessionInit ==
    /\ userAchievements = <<>>
    /\ now \in 1..MaxNow
    /\ argBooks = <<>>
    /\ argSessions = <<>>
    /\ argNow = 0
    /\ newAchievements = <<>>
    /\ calls = 0
    /\ repeated = FALSE
    /\ timesReturned = [id \in CatalogIds |-> 0]
    /\ readingSessions = <<>>
    /\ analytics = NoAnalytics
    /\ streakMetric = NoMetric
    /\ books = Stock
    /\ appBooks = <<>>
    /\ goals = <<>>
    /\ mounted = FALSE
    /\ nextId = 1
    /\ goalOp = NoGoalOp
    /\ goalStatus = NoGoalStatus
    /\ showAddForm = FALSE
    /\ editingGoal = 0

\* bookService.addReadingSession(sessionData) with a session dated now.
AddReadingSession ==
    /\ Len(readingSessions) < MaxSessions
    /\ \E id \in SessionBookIds, pages \in SessionPages :
          \E r \in { addReadingSession(books, readingSessions,
                        [bookId |-> id, day |-> now, tod |-> 1,
                         pagesRead |-> pages, duration |-> 30], now) } :
              /\ books' = r.books
              /\ readingSessions' = r.sessions
    /\ UNCHANGED <<now, engineVars, analytics, streakMetric, appBooks, goals, mounted,
                   goalVars>>

SessionNext == AddReadingSession

SessionSpec == SessionInit /\ [][SessionNext]_vars

(***************************************************************************)
(* Specification of getGoalStatus on any stored goal at any time           *)
(***************************************************************************)
StatusInit ==
    /\ userAchievements = <<>>
    /\ now \in 1..MaxDay
    /\ argBooks = <<>>
    /\ argSessions = <<>>
    /\ argNow = 0
    /\ newAchievements = <<>>
    /\ calls = 0
    /\ repeated = FALSE
    /\ timesReturned = [id \in CatalogIds |-> 0]
    /\ readingSessions = <<>>
    /\ analytics = NoAnalytics
    /\ streakMetric = NoMetric
    /\ books = <<>>
    /\ appBooks = <<>>
    /\ \E target \in 0..MaxTarget, progress \in 0..MaxTarget,
          startDate \in 1..MaxDay, endDate \in 1..MaxDay :
          /\ startDate <= endDate
          /\ goals = << [id |-> 1, type |-> "books", period |-> "year", target |-> target,
                         startDate |-> startDate, endDate |-> endDate, isActive |-> TRUE,
                         currentProgress |-> progress] >>
    /\ mounted = FALSE
    /\ nextId = 2
    /\ goalOp = NoGoalOp
    /\ goalStatus = NoGoalStatus
    /\ showAddForm = FALSE
    /\ editingGoal = 0

\* goalService.getGoalStatus(goal) at midnight or later in the day.
GetGoalStatus ==
    /\ \E i \in 1..Len(goals), tod \in {0, 1} :
          goalStatus' = [asked  |-> TRUE,
                         id     |-> goals[i].id,
                         at     |-> Instant(now, tod),
                         status |-> getGoalStatus(goals[i], Instant(now, tod))]
    /\ UNCHANGED <<now, engineVars, metricVars, appVars, nextId, goalOp,
                   showAddForm, editingGoal>>

StatusNext == GetGoalStatus

StatusSpec == StatusInit /\ [][StatusNext]_vars

(***************************************************************************)
(* Properties of the achievement engine                                    *)
(***************************************************************************)
CatalogIndex(id) == CHOOSE k \in 1..Len(achievements) : achievements[k].id = id

HasRecord(ua, id) == \E i \in 1..Len(ua) : ua[i].achievementId = id

RecordOf(ua, id) == ua[CHOOSE i \in 1..Len(ua) : ua[i].achievementId = id]

EarnedIn(ua, id) == HasRecord(ua, id) /\ RecordOf(ua, id).isEarned

\* The metric of a catalog entry read off the arguments, as the
\* specification words it.
CompletedIdx(bs) == { i \in 1..Len(bs) : bs[i].status = "completed" }

RECURSIVE SumOver(_, _)
SumOver(f, S) == IF S = {} THEN 0
                 ELSE LET x == CHOOSE y \in S : TRUE IN f[x] + SumOver(f, S \ {x})

StatedMetric(type, bs, ss) ==
    LET minutes == SumOver([i \in 1..Len(ss) |-> ss[i].duration], 1..Len(ss))
        pages   == SumOver([i \in 1..Len(ss) |-> ss[i].pagesRead], 1..Len(ss))
    IN  CASE type = "books_read"      -> [n |-> Cardinality(CompletedIdx(bs)), d |-> 1]
          [] type = "pages_read"      -> [n |-> pages, d |-> 1]
          [] type = "genre_diversity" ->
                [n |-> Cardinality({ bs[i].genre : i \in
                          { j \in CompletedIdx(bs) : bs[j].genre \notin {"", " "} } }),
                 d |-> 1]
          [] type = "quote_collector" ->
                [n |-> SumOver([i \in 1..Len(bs) |-> bs[i].quotes], 1..Len(bs)), d |-> 1]
          [] type = "reading_time"    -> [n |-> minutes, d |-> 60]
          [] type = "speed_reader"    ->
                IF minutes = 0 THEN [n |-> 0, d |-> 1] ELSE [n |-> pages * 60, d |-> minutes]

\* x = min(metric / requirement * 100, 100) for metric = m.n / m.d
IsStatedProgress(x, m, req) ==
    IF m.n >= req * m.d THEN x.n = 100 * x.d
    ELSE x.n * m.d * req = 100 * m.n * x.d

SixTypes == {"books_read", "pages_read", "genre_diversity", "quote_collector",
             "reading_time", "speed_reader"}

\* C1: once a record has isEarned = true, no later checkAchievements call
\* changes it: isEarned stays true and earnedAt keeps its value.
C1_EarnedIsFrozen ==
    [][\A i \in 1..Len(userAchievements) :
          userAchievements[i].isEarned =>
              /\ Len(userAchievements') >= i
              /\ userAchievements'[i].achievementId = userAchievements[i].achievementId
              /\ userAchievements'[i].isEarned
              /\ userAchievements'[i].earnedAt = userAchievements[i].earnedAt]_vars

\* A second call has run on inputs whose metric is below the requirement
\* of a record earned before, and the record is still earned.
C1_Witness ==
    /\ calls >= 2
    /\ \E i \in 1..Len(userAchievements) :
          LET rec == userAchievements[i]
              a   == achievements[CatalogIndex(rec.achievementId)]
          IN  /\ rec.isEarned
              /\ rec.earnedAt # Epoch
              /\ ~IsEarnedOf(a, Metrics(argBooks, argSessions, argNow))

\* C2: whenever a call changes an entry's isEarned from false to true
\* (no prior record, or an unearned prior record), the record's earnedAt is
\* the time of that call and the record is in the returned newlyEarned list.
C2_FlipIsStampedAndReported ==
    [][\A id \in CatalogIds :
          (~EarnedIn(userAchievements, id) /\ EarnedIn(userAchievements', id)) =>
              /\ RecordOf(userAchievements', id).earnedAt = now
              /\ \E j \in 1..Len(newAchievements') :
                    newAchievements'[j].achievementId = id]_vars

\* C3: a call that repeats the books, sessions and date of the call before
\* it leaves userAchievements as it was and returns an empty list.
C3_RepeatIsNoOp ==
    [][(calls' = calls + 1 /\ calls >= 1 /\ argBooks' = argBooks
          /\ argSessions' = argSessions /\ argNow' = argNow) =>
              (userAchievements' = userAchievements /\ newAchievements' = <<>>)]_vars

\* A repeated call has run while some record was earned.
C3_Witness ==
    /\ repeated
    /\ newAchievements = <<>>
    /\ \E i \in 1..Len(userAchievements) : userAchievements[i].isEarned
    /\ \E i \in 1..Len(userAchievements) :
          /\ ~userAchievements[i].isEarned
          /\ userAchievements[i].progress.n > 0

\* C4: over any sequence of calls, each catalog entry appears in the
\* returned newlyEarned lists at most once in total.
C4_ReturnedAtMostOnce == \A id \in CatalogIds : timesReturned[id] <= 1

\* An entry returned by an earlier call met its requirement again in the
\* latest call and was not returned again.
C4_Witness ==
    /\ calls >= 2
    /\ \E id \in CatalogIds :
          /\ timesReturned[id] = 1
          /\ CountIn(newAchievements, id) = 0
          /\ IsEarnedOf(achievements[CatalogIndex(id)],
                        Metrics(argBooks, argSessions, argNow))

\* C6: for every not-yet-earned entry of the six count/sum/rate types, a
\* call stores progress = min(metric / requirement * 100, 100) and
\* isEarned = (metric >= requirement); stored progress lies in 0..100.
C6_ProgressAndEarnedFromMetric ==
    [][calls' = calls + 1 =>
        \A k \in 1..Len(achievements) :
            LET a == achievements[k]
                m == StatedMetric(a.type, argBooks', argSessions')
            IN  (a.type \in SixTypes /\ ~EarnedIn(userAchievements, a.id)) =>
                  /\ HasRecord(userAchievements', a.id)
                  /\ IsStatedProgress(RecordOf(userAchievements', a.id).progress,
                                      m, a.requirement)
                  /\ RecordOf(userAchievements', a.id).isEarned
                        = (m.n >= a.requirement * m.d)
                  /\ RecordOf(userAchievements', a.id).progress.n >= 0
                  /\ RecordOf(userAchievements', a.id).progress.n
                        <= 100 * RecordOf(userAchievements', a.id).progress.d]_vars

\* A call has stored a partial speed_reader progress, a fractional
\* genre_diversity progress and an earned reading_time record.
C6_Witness ==
    /\ calls >= 1
    /\ \E i, j, k \in 1..Len(userAchievements) :
          LET ri == userAchievements[i]
              rj == userAchievements[j]
              rk == userAchievements[k]
          IN  /\ achievements[CatalogIndex(ri.achievementId)].type = "speed_reader"
              /\ ~ri.isEarned /\ ri.progress.n > 0
              /\ achievements[CatalogIndex(rj.achievementId)].type = "reading_time"
              /\ rj.isEarned /\ rj.progress = [n |-> 100, d |-> 1]
              /\ achievements[CatalogIndex(rk.achievementId)].type = "genre_diversity"
              /\ ~rk.isEarned /\ rk.progress.d > 1

\* C20: userAchievements holds at most one record per achievementId, and
\* after any checkAchievements call exactly one record for every catalog
\* entry.
C20_OneRecordPerEntry ==
    /\ \A i, j \in 1..Len(userAchievements) :
          userAchievements[i].achievementId = userAchievements[j].achievementId => i = j
    /\ calls >= 1 =>
          { userAchievements[i].achievementId : i \in 1..Len(userAchievements) } = CatalogIds

\* Three calls have run and the collection holds one record per entry.
C20_Witness ==
    /\ calls >= 3
    /\ Len(userAchievements) = Len(achievements)
    /\ \E i \in 1..Len(userAchievements) : userAchievements[i].isEarned
    /\ \E i \in 1..Len(userAchievements) : ~userAchievements[i].isEarned

\* Every value of the locals that a call can compute from the caller's arrays.
MetricRange ==
    { Metrics(bs, ss, t) : bs \in BookInputs, ss \in SessionInputs, t \in 1..MaxNow }

\* Per catalog entry, every metric value in that range paired with the
\* progress that a call computes from it.
ProgressTable ==
    [k \in 1..Len(achievements) |->
        IF HasMetric(achievements[k].type)
        THEN { [metric   |-> m[achievements[k].type],
                progress |-> ProgressOf(achievements[k], m)] : m \in MetricRange }
        ELSE {}]

\* C21: for a fixed entry that is not yet earned, the progress a call
\* computes is non-decreasing in the entry's metric: the progress stored
\* for the metric m1 of the last call is at most the progress of any
\* metric m2 >= m1 and at least the progress of any metric m2 <= m1.
C21_ProgressIsMonotone ==
    calls >= 1 =>
      \A m1 \in { Metrics(argBooks, argSessions, argNow) } :
        \A i \in 1..Len(userAchievements) :
          LET rec == userAchievements[i]
              k   == CatalogIndex(rec.achievementId)
          IN  (~rec.isEarned /\ HasMetric(achievements[k].type)) =>
                \A p2 \in ProgressTable[k] :
                  /\ FracLeq(m1[achievements[k].type], p2.metric)
                        => FracLeq(rec.progress, p2.progress)
                  /\ FracLeq(p2.metric, m1[achievements[k].type])
                        => FracLeq(p2.progress, rec.progress)

\* A call has stored a partial progress for an unearned entry, and the
\* caller's arrays can give that entry a strictly larger metric with a
\* strictly larger progress below 100, and a still larger one with
\* progress 100.
C21_Witness ==
    /\ calls >= 1
    /\ \E i \in 1..Len(userAchievements) :
          LET rec == userAchievements[i]
              k   == CatalogIndex(rec.achievementId)
              m1  == Metrics(argBooks, argSessions, argNow)
          IN  /\ ~rec.isEarned /\ HasMetric(achievements[k].type)
              /\ rec.progress.n > 0
              /\ \E p2, p3 \in ProgressTable[k] :
                    /\ ~FracLeq(p2.metric, m1[achievements[k].type])
                    /\ ~FracLeq(p2.progress, rec.progress)
                    /\ ~FracLeq(FracOfInt(100), p2.progress)
                    /\ ~FracLeq(p3.metric, p2.metric)
                    /\ p3.progress = FracOfInt(100)

\* C25: among the catalog entries of one type, earned entries are closed
\* downwards: if the entry with requirement r2 is earned, so is every
\* entry of that type with a requirement r1 < r2.
C25_EarnedLadderIsDownwardClosed ==
    \A k1, k2 \in 1..Len(achievements) :
        (/\ achievements[k1].type = achievements[k2].type
         /\ achievements[k1].requirement < achievements[k2].requirement
         /\ EarnedIn(userAchievements, achievements[k2].id))
        => EarnedIn(userAchievements, achievements[k1].id)

\* Two entries of one type are earned while the metric of the last call
\* is below both requirements, and another type has its first entry
\* earned and its second one not.
C25_Witness ==
    /\ calls >= 2
    /\ \E k1, k2 \in 1..Len(achievements) :
          /\ achievements[k1].type = achievements[k2].type
          /\ achievements[k1].requirement < achievements[k2].requirement
          /\ EarnedIn(userAchievements, achievements[k1].id)
          /\ EarnedIn(userAchievements, achievements[k2].id)
          /\ ~IsEarnedOf(achievements[k1], Metrics(argBooks, argSessions, argNow))
    /\ \E k1, k2 \in 1..Len(achievements) :
          /\ achievements[k1].type = achievements[k2].type
          /\ achievements[k1].requirement < achievements[k2].requirement
          /\ EarnedIn(userAchievements, achievements[k1].id)
          /\ HasRecord(userAchievements, achievements[k2].id)
          /\ ~EarnedIn(userAchievements, achievements[k2].id)

\* C26: every stored record has isEarned = true exactly when its progress
\* is 100, and an unearned record has a progress below 100.
C26_EarnedIffFullProgress ==
    \A i \in 1..Len(userAchievements) :
        LET rec == userAchievements[i]
        IN  /\ rec.isEarned <=> rec.progress = FracOfInt(100)
            /\ ~rec.isEarned => ~FracLeq(FracOfInt(100), rec.progress)

\* A record earned by an earlier call keeps progress 100 although the
\* last call's metric is below its requirement, next to an unearned
\* record with a partial progress.
C26_Witness ==
    /\ calls >= 2
    /\ \E i, j \in 1..Len(userAchievements) :
          LET ri == userAchievements[i]
              rj == userAchievements[j]
          IN  /\ ri.isEarned /\ ri.progress = FracOfInt(100)
              /\ ~IsEarnedOf(achievements[CatalogIndex(ri.achievementId)],
                             Metrics(argBooks, argSessions, argNow))
              /\ ~rj.isEarned /\ rj.progress.n > 0

(***************************************************************************)
(* Properties of the streak calculations                                   *)
(***************************************************************************)
SessionDays == { readingSessions[i].day : i \in 1..Len(readingSessions) }

\* Length of the run of consecutive calendar days of D that ends at day d.
RunEndingAt(D, d) ==
    CHOOSE k \in 1..Cardinality(D) :
        /\ \A j \in 0..(k - 1) : (d - j) \in D
        /\ (d - k) \notin D

LastDay(D) == CHOOSE d \in D : \A e \in D : e <= d

LongestRun(D) ==
    IF D = {} THEN 0
    ELSE CHOOSE k \in 1..Cardinality(D) :
            /\ \E d \in D : RunEndingAt(D, d) = k
            /\ \A d \in D : RunEndingAt(D, d) <= k

\* C8: on the same sessions and date, the streak metric of checkAchievements
\* equals the currentStreak of getAnalytics, grace day included.
C8_StreakMetricEqualsCurrentStreak ==
    (analytics.valid /\ streakMetric # NoMetric) =>
        streakMetric = analytics.readingStreak

\* C9: with gap = today - last reading day, currentStreak is the run of
\* consecutive days ending at the last reading day when gap is 0 or 1, and
\* 0 when gap > 1.
C9_CurrentStreakByGap ==
    (analytics.valid /\ SessionDays # {}) =>
        LET gap == now - LastDay(SessionDays)
        IN  /\ gap \in {0, 1} =>
                analytics.readingStreak = RunEndingAt(SessionDays, LastDay(SessionDays))
            /\ gap > 1 => analytics.readingStreak = 0

\* Sessions on D-2 and D-1, none on D: currentStreak = 2, longestStreak = 2.
C9_Witness ==
    /\ analytics.valid
    /\ SessionDays = {now - 2, now - 1}
    /\ analytics.readingStreak = 2
    /\ analytics.longestStreak = 2

\* C10: longestStreak is the length of the longest run of consecutive
\* calendar days among the distinct session days, 0 without sessions.
C10_LongestStreakIsLongestRun ==
    analytics.valid => analytics.longestStreak = LongestRun(SessionDays)

\* Sessions on D-5 and D-3: longestStreak = 1, currentStreak = 0.
C10_Witness ==
    /\ analytics.valid
    /\ SessionDays = {now - 5, now - 3}
    /\ analytics.longestStreak = 1
    /\ analytics.readingStreak = 0

\* C27: the values getAnalytics returns satisfy
\* readingStreak <= longestStreak <= number of distinct session days.
C27_StreaksAreOrdered ==
    analytics.valid =>
        /\ analytics.readingStreak <= analytics.longestStreak
        /\ analytics.longestStreak <= Cardinality(SessionDays)

\* Sessions on four days, three of them consecutive, the last one today:
\* currentStreak 1 < longestStreak 3 < 4 distinct days.
C27_Witness ==
    /\ analytics.valid
    /\ Cardinality(SessionDays) = 4
    /\ now \in SessionDays
    /\ analytics.readingStreak = 1
    /\ analytics.longestStreak = 3

\* C28: when a session is dated on the current calendar day, getAnalytics
\* reports readingStreak >= 1, whatever other sessions exist, sessions
\* dated after today included.
C28_SessionTodayGivesStreak ==
    (analytics.valid /\ now \in SessionDays) => analytics.readingStreak >= 1

(***************************************************************************)
(* Properties of the App                                                   *)
(***************************************************************************)
GoalAchieverIds == {"goals-1", "goals-5", "goals-10"}

\* The number of achieved reading goals.
AchievedGoals(gs) == Cardinality({ i \in 1..Len(gs) : isGoalCompleted(gs[i]) })

\* C5: for the goal_achiever entries the metric is the number of achieved
\* reading goals: a call stores progress = min(count / requirement * 100, 100)
\* and isEarned = (count >= requirement) for these entries.
C5_GoalAchieverFromGoalCount ==
    [][calls' > calls =>
        \A id \in GoalAchieverIds :
            ~EarnedIn(userAchievements, id) =>
                LET a     == achievements[CatalogIndex(id)]
                    count == [n |-> AchievedGoals(goals'), d |-> 1]
                    rec   == RecordOf(userAchievements', id)
                IN  /\ HasRecord(userAchievements', id)
                    /\ rec.isEarned = (count.n >= a.requirement)
                    /\ IsStatedProgress(rec.progress, count, a.requirement)]_vars

\* C7: every checkAchievements invocation issued by the App evaluates the
\* engine on a books list equal to the contents of the book store at that
\* moment, the mutation that triggered the invocation included.
C7_EngineSeesTheStore ==
    [][calls' > calls => argBooks' = books']_vars

(***************************************************************************)
(* Properties of BookService.addReadingSession                             *)
(***************************************************************************)
\* C29: addReadingSession appends exactly one session; the session's book,
\* if stored, gets currentPage = min(old currentPage + pagesRead,
\* totalPages) and, when that reaches totalPages while its status was
\* reading, status completed and a finishDate; no other book changes, and
\* currentPage <= totalPages still holds for every book.
C29_SessionAdvancesItsBookOnly ==
    [][LET n  == Len(readingSessions)
           sd == readingSessions'[n + 1]
       IN  /\ Len(readingSessions') = n + 1
           /\ SubSeq(readingSessions', 1, n) = readingSessions
           /\ Len(books') = Len(books)
           /\ \A i \in 1..Len(books) :
                 /\ books[i].id # sd.bookId => books'[i] = books[i]
                 /\ books[i].id = sd.bookId =>
                       /\ books'[i].currentPage
                             = Min(books[i].currentPage + sd.pagesRead, books[i].totalPages)
                       /\ (/\ books'[i].currentPage >= books[i].totalPages
                           /\ books[i].status = "reading")
                             => (/\ books'[i].status = "completed"
                                 /\ books'[i].finishDate = now)
                 /\ books'[i].currentPage <= books'[i].totalPages]_vars

\* Sessions have been added for a book that was being read, which is now
\* completed at its last page, for the paused book, which reached its last
\* page and stays paused, and for a book the store does not hold.
C29_Witness ==
    /\ \E i \in 1..Len(books) :
          /\ books[i].id = "b2"
          /\ books[i].status = "completed"
          /\ books[i].currentPage = books[i].totalPages
          /\ books[i].finishDate = now
    /\ \E i \in 1..Len(books) :
          /\ books[i].id = "b5"
          /\ books[i].status = "paused"
          /\ books[i].currentPage = books[i].totalPages
    /\ \E j \in 1..Len(readingSessions) : readingSessions[j].bookId = "b9"
    /\ \E j \in 1..Len(readingSessions) :
          readingSessions[j].bookId = "b2" /\ readingSessions[j].pagesRead = 400

(***************************************************************************)
(* Properties of GoalService                                               *)
(***************************************************************************)
\* now lies in [startDate, endDate], as instants.
WindowContainsNow(goal) ==
    /\ Instant(goal.startDate, 0) <= Instant(now, 1)
    /\ Instant(now, 1) <= Instant(goal.endDate, 0)

\* The progress P of a goal as the specification words it.
StatedProgress(goal, bs, ss) ==
    LET thisMonthBooks    == { i \in 1..Len(bs) :
                                 bs[i].finishDate # 0
                                 /\ MonthOf(bs[i].finishDate) = MonthOf(now) }
        thisMonthSessions == { i \in 1..Len(ss) : MonthOf(ss[i].day) = MonthOf(now) }
        pages             == [i \in 1..Len(ss) |-> ss[i].pagesRead]
    IN  CASE goal.type = "books" /\ goal.period = "month" -> Cardinality(thisMonthBooks)
          [] goal.type = "books" /\ goal.period = "year"  -> Cardinality(CompletedIdx(bs))
          [] goal.type = "pages" /\ goal.period = "month" -> SumOver(pages, thisMonthSessions)
          [] goal.type = "pages" /\ goal.period = "year"  -> SumOver(pages, 1..Len(ss))

\* C11: after updateGoalProgress every active goal whose window contains
\* now has currentProgress = min(P, target), P chosen by type and period.
C11_ProgressIsClampedMetric ==
    (goalOp.op = "updateGoalProgress" /\ goalOp.error = "") =>
        \A i \in 1..Len(goals) :
            (goals[i].isActive /\ WindowContainsNow(goals[i])) =>
                goals[i].currentProgress =
                    Min(StatedProgress(goals[i], books, readingSessions), goals[i].target)

\* updateGoalProgress has clamped a pages goal whose P exceeds the target.
C11_Witness ==
    /\ goalOp.op = "updateGoalProgress"
    /\ \E i \in 1..Len(goals) :
          /\ goals[i].isActive /\ WindowContainsNow(goals[i])
          /\ goals[i].type = "pages"
          /\ StatedProgress(goals[i], books, readingSessions) > goals[i].target
          /\ goals[i].currentProgress = goals[i].target

\* C12: updateGoalProgress changes nothing in the goal collection but the
\* currentProgress of active goals whose window contains now.
C12_OnlyProgressOfLiveGoalsChanges ==
    [][goalOp'.op = "updateGoalProgress" =>
        /\ Len(goals') = Len(goals)
        /\ \A i \in 1..Len(goals) :
            /\ [goals'[i] EXCEPT !.currentProgress = goals[i].currentProgress] = goals[i]
            /\ (~goals[i].isActive \/ ~WindowContainsNow(goals[i])) => goals'[i] = goals[i]]_vars

\* updateGoalProgress has run over a goal that is inactive or outside its
\* window and still carries the progress of an earlier run.
C12_Witness ==
    /\ goalOp.op = "updateGoalProgress"
    /\ \E i \in 1..Len(goals) :
          /\ ~goals[i].isActive \/ ~WindowContainsNow(goals[i])
          /\ goals[i].currentProgress > 0

\* C13: in every state reachable by addGoal, updateGoal, deleteGoal and
\* updateGoalProgress every goal has 0 <= currentProgress <= target.
C13_ProgressWithinTarget ==
    \A i \in 1..Len(goals) :
        0 <= goals[i].currentProgress /\ goals[i].currentProgress <= goals[i].target

\* C18: updateGoal with an id that matches no stored goal signals
\* 'Goal not found' and leaves the goal collection unchanged.
C18_UnknownGoalIsRejected ==
    [][(goalOp'.op = "updateGoal" /\ goalOp'.seq = goalOp.seq + 1
            /\ GoalIndex(goals, goalOp'.id) = 0) =>
        (goalOp'.error = "Goal not found" /\ goals' = goals)]_vars

\* updateGoal has been refused for an unknown id while a goal was stored.
C18_Witness ==
    /\ goalOp.op = "updateGoal"
    /\ goalOp.error = "Goal not found"
    /\ Len(goals) > 0

\* C22: an updateGoalProgress call that directly follows another one, with
\* the books, sessions, goals and date untouched in between, leaves every
\* goal as the first call left it.
C22_UpdateGoalProgressIsIdempotent ==
    [][(/\ goalOp.op = "updateGoalProgress"
        /\ goalOp'.op = "updateGoalProgress"
        /\ goalOp'.seq = goalOp.seq + 1) => goals' = goals]_vars

\* Two updateGoalProgress calls in a row have run on a goal that is active,
\* in its window and partly achieved.
C22_Witness ==
    /\ goalOp.op = "updateGoalProgress"
    /\ goalOp.prev = "updateGoalProgress"
    /\ goalOp.error = ""
    /\ \E i \in 1..Len(goals) :
          /\ goals[i].isActive
          /\ WindowContainsNow(goals[i])
          /\ goals[i].currentProgress > 0
          /\ goals[i].currentProgress < goals[i].target

\* C30: submitting the goal form that the edit button of a goal opened
\* updates that goal in place: the number of stored goals is unchanged and
\* the edited goal keeps its id and its currentProgress.
C30_EditSubmitUpdatesInPlace ==
    [][(editingGoal # 0 /\ ~showAddForm /\ goalOp'.seq > goalOp.seq) =>
          /\ Len(goals') = Len(goals)
          /\ GoalIndex(goals', editingGoal) # 0
          /\ goals'[GoalIndex(goals', editingGoal)].currentProgress
                = goals[GoalIndex(goals, editingGoal)].currentProgress]_vars

(***************************************************************************)
(* Properties of getAnalytics                                              *)
(***************************************************************************)
\* C14: getAnalytics has no side effects on its inputs: every book and
\* every session of the store, date and time of day included, is unchanged
\* by a call.
C14_GetAnalyticsLeavesTheStore ==
    [][analytics' # analytics => (readingSessions' = readingSessions /\ books' = books)]_vars

\* C17: a session with a malformed date does not abort getAnalytics: the
\* call returns a record whose day-based aggregates leave that session out
\* and count the others.
C17_MalformedDateIsLeftOut ==
    analytics # NoAnalytics =>
        /\ analytics.valid
        /\ analytics.longestStreak = LongestRun(SessionDays \ {InvalidDay})

\* C19: without books and sessions getAnalytics returns zeros, no favourite
\* genre and no badges; with sessions of total duration 0 readingVelocity is 0.
C19_EmptyInputsGiveZeros ==
    analytics.valid =>
        /\ (books = <<>> /\ readingSessions = <<>>) =>
              /\ analytics.totalPagesRead = 0
              /\ analytics.averagePagesPerDay = 0
              /\ analytics.readingStreak = 0
              /\ analytics.longestStreak = 0
              /\ analytics.averageRating = [n |-> 0, d |-> 1]
              /\ analytics.totalReadingTime = [n |-> 0, d |-> 1]
              /\ analytics.averageBookLength = 0
              /\ analytics.completionRate = 0
              /\ analytics.readingVelocity = [n |-> 0, d |-> 1]
              /\ analytics.favoriteGenre = ""
              /\ analytics.badges = <<>>
        /\ (\A i \in 1..Len(readingSessions) : readingSessions[i].duration = 0) =>
              analytics.readingVelocity = [n |-> 0, d |-> 1]

\* getAnalytics has answered for a store without books whose sessions
\* have pages but no duration.
C19_Witness ==
    /\ analytics.valid
    /\ books = <<>>
    /\ Len(readingSessions) > 0
    /\ \A i \in 1..Len(readingSessions) :
          readingSessions[i].duration = 0 /\ readingSessions[i].pagesRead > 0
    /\ analytics.readingVelocity = [n |-> 0, d |-> 1]
    /\ analytics.completionRate = 0

\* The three ladders as the specification lists them.
StatedLadders ==
    { [id |-> "streak-3", of |-> "streak", m |-> 3],
      [id |-> "streak-7", of |-> "streak", m |-> 7],
      [id |-> "streak-14", of |-> "streak", m |-> 14],
      [id |-> "streak-30", of |-> "streak", m |-> 30],
      [id |-> "books-1", of |-> "books", m |-> 1],
      [id |-> "books-5", of |-> "books", m |-> 5],
      [id |-> "books-10", of |-> "books", m |-> 10],
      [id |-> "books-25", of |-> "books", m |-> 25],
      [id |-> "books-50", of |-> "books", m |-> 50],
      [id |-> "pages-100", of |-> "pages", m |-> 100],
      [id |-> "pages-500", of |-> "pages", m |-> 500],
      [id |-> "pages-1000", of |-> "pages", m |-> 1000],
      [id |-> "pages-5000", of |-> "pages", m |-> 5000],
      [id |-> "pages-10000", of |-> "pages", m |-> 10000] }

\* The value that a ladder is measured against.
LadderValue(of) ==
    CASE of = "streak" -> analytics.readingStreak
      [] of = "books"  -> Cardinality(CompletedIdx(books))
      [] of = "pages"  -> analytics.totalPagesRead

BadgeCount(id) ==
    Cardinality({ i \in 1..Len(analytics.badges) : analytics.badges[i] = id })

\* C23: getAnalytics emits exactly one badge for every threshold of the
\* three ladders that its value meets or exceeds, none for a threshold
\* above the value, and no other badge.
C23_OneBadgePerThresholdMet ==
    analytics.valid =>
        /\ \A l \in StatedLadders :
              BadgeCount(l.id) = IF LadderValue(l.of) >= l.m THEN 1 ELSE 0
        /\ \A i \in 1..Len(analytics.badges) :
              \E l \in StatedLadders : analytics.badges[i] = l.id

\* totalPagesRead = 1200 with the pages badges 100, 500 and 1000 but not
\* 5000, next to a three-day streak and a one-book badge.
C23_Witness ==
    /\ analytics.valid
    /\ analytics.totalPagesRead = 1200
    /\ BadgeCount("pages-100") = 1 /\ BadgeCount("pages-500") = 1
    /\ BadgeCount("pages-1000") = 1 /\ BadgeCount("pages-5000") = 0
    /\ analytics.readingStreak = 3
    /\ BadgeCount("streak-3") = 1 /\ BadgeCount("streak-7") = 0
    /\ Cardinality(CompletedIdx(books)) = 1
    /\ BadgeCount("books-1") = 1 /\ BadgeCount("books-5") = 0

\* C24: completionRate is 0 without books and otherwise an integer nearest
\* to completedBooks / totalBooks * 100; it lies in 0..100.
C24_CompletionRateIsRoundedShare ==
    analytics.valid =>
        LET total     == Len(books)
            completed == Cardinality(CompletedIdx(books))
            rate      == analytics.completionRate
        IN  /\ total = 0 => rate = 0
            /\ total > 0 =>
                  /\ 2 * (rate * total - 100 * completed) <= total
                  /\ 2 * (100 * completed - rate * total) <= total
            /\ rate \in 0..100

\* 3 completed of 4 books gives 75.
C24_Witness ==
    /\ analytics.valid
    /\ Len(books) = 4
    /\ Cardinality(CompletedIdx(books)) = 3
    /\ analytics.completionRate = 75

(***************************************************************************)
(* Properties of getGoalStatus                                             *)
(***************************************************************************)
\* The goal whose status was asked for last.
AskedGoal == goals[GoalIndex(goals, goalStatus.id)]

\* Whole days between startDate and endDate.
StatedTotalDays == AskedGoal.endDate - AskedGoal.startDate

\* Whole days elapsed since startDate at the instant of the call.
StatedDaysElapsed == (goalStatus.at - Instant(AskedGoal.startDate, 0)) \div 2

\* C15: for a goal with totalDays > 0 getGoalStatus returns completed if
\* currentProgress >= target, else not-started if the days elapsed are <= 0,
\* else on-track if currentProgress / expectedProgress >= 0.8 with
\* expectedProgress = daysElapsed / totalDays * target, else behind.
C15_StatusByProgressRatio ==
    (goalStatus.asked /\ StatedTotalDays > 0) =>
        goalStatus.status =
            IF AskedGoal.currentProgress >= AskedGoal.target THEN "completed"
            ELSE IF StatedDaysElapsed <= 0 THEN "not-started"
            ELSE IF 10 * AskedGoal.currentProgress * StatedTotalDays
                        >= 8 * StatedDaysElapsed * AskedGoal.target
            THEN "on-track" ELSE "behind"

\* A goal past its first day whose progress is exactly 0.8 of the expected
\* progress is on track.
C15_Witness ==
    /\ goalStatus.asked
    /\ StatedTotalDays > 0
    /\ StatedDaysElapsed > 0
    /\ AskedGoal.currentProgress < AskedGoal.target
    /\ 10 * AskedGoal.currentProgress * StatedTotalDays
          = 8 * StatedDaysElapsed * AskedGoal.target
    /\ goalStatus.status = "on-track"

\* C16: getGoalStatus never divides by zero: it returns one of the four
\* statuses, and for a goal that is not completed and whose expectedProgress
\* would be 0 or undefined (totalDays = 0 included) it returns not-started.
C16_ZeroExpectedIsNotStarted ==
    goalStatus.asked =>
        /\ goalStatus.status \in {"completed", "on-track", "behind", "not-started"}
        /\ (AskedGoal.currentProgress < AskedGoal.target
                /\ (StatedTotalDays = 0 \/ StatedDaysElapsed * AskedGoal.target = 0)) =>
              goalStatus.status = "not-started"

====
